---- MODULE Spec2Model ----
(***************************************************************************)
(* State-machine model of src/src/tunnel.py (class Tunnel).                *)
(*                                                                         *)
(* Threads of control:                                                     *)
(*   - the caller      : start, __enter__, stop/__exit__                   *)
(*   - the aggregator  : Tunnel._print  (thread "print_job")               *)
(*   - one worker per registered tunnel : Tunnel._run / _process_line      *)
(*   - one child process per worker (the external tunnel command)          *)
(* Each thread is a program counter plus its locals; every action is one   *)
(* atomic step of one thread (Python statements between two points where   *)
(* another thread can observe or change the shared fields).                *)
(*                                                                         *)
(* Spec          : sessions of a Tunnel instance (start/enter ... stop)    *)
(* SpecBuild     : registration (with_tunnel_list, add_tunnel)             *)
(* SpecWait(Fair): one call of wait_for_condition                          *)
(***************************************************************************)
EXTENDS Integers, Sequences, FiniteSets, TLC

\* ------------------------------------------------------------------ bounds
\* Number of output lines the child processes of one session write in all.
MaxWrites == 2

\* ------------------------------------------------------------ input domains
\* The tunnels registered on the instance (with_tunnel_list, or add_tunnel
\* calls made right after construction) are a prefix of this pool.  pattern is
\* the (abstract) compiled regular expression, callback is TRUE when a
\* per-tunnel callback is given.
SpecPool ==
  << [name |-> "t1", pattern |-> "ngrok", note |-> "n1", callback |-> FALSE],
     [name |-> "t2", pattern |-> "example", note |-> "n2", callback |-> TRUE] >>

\* Output lines the command of each tunnel may write: the first one prints
\* its URL or a line without one, the second one prints its URL (without a
\* scheme) or a line that the first tunnel's pattern matches.
Output ==
  << {"http://a.ngrok.io", "starting"},
     {"tunnel.example.com ready", "http://a.ngrok.io"} >>

Workers == 1..Len(SpecPool)

VARIABLES
  \* ---- fields of Tunnel (tunnel.py 58-75)
  is_running,        \* self._is_running
  urls,              \* self.urls : sequence of <<link, note>>
  urls_lock,         \* self.urls_lock : "free" or the holding thread
  jobs,              \* self.jobs : sequence of thread ids (0 = print job, w = worker w)
  processes,         \* self.processes : sequence of process handles (worker index)
  tunnel_list,       \* self.tunnel_list
  stop_event,        \* self.stop_event
  printed,           \* self.printed
  check_local_port,  \* self.check_local_port
  callback,          \* self.callback is not None
  \* ---- the caller thread
  cpc,               \* "idle" | "start_wait" (inside start(), polling printed)
  saved_clp,         \* start()'s local _check_local_port (FALSE outside start)
  ret,               \* outcome of the caller's last API call
  \* ---- stop() in progress (runs in the caller thread)
  spc,               \* "none" | "terminate" | "join"
  si,                \* index of stop's iteration over self.processes / self.jobs
  \* ---- the aggregator thread (_print)
  ppc,
  \* ---- worker threads (_run), indexed by tunnel position
  wpc,               \* program counter
  wloc,              \* locals: url_extracted, line, gate
  \* ---- operating system
  child,             \* child process of worker w: state, pipe, lines written
  portBound,         \* a listener accepts connections on localhost:port
  \* ---- observation of the session (log records, callback invocations,
  \*      who appended which entry of urls)
  obs,
  \* ---- calls studied on their own
  build,             \* the last registration call (with_tunnel_list, add_tunnel)
  wfc,               \* one call of wait_for_condition: its arguments and locals
  pl                 \* one match handled by _process_line: the text and its link

fields == <<is_running, urls, urls_lock, jobs, processes, tunnel_list,
            stop_event, printed, check_local_port, callback>>
callerv == <<cpc, saved_clp, ret>>
stopv == <<spc, si>>
threadv == <<ppc, wpc, wloc>>
osv == <<child, portBound>>
auxv == <<build, wfc, pl>>
vars == <<fields, callerv, stopv, threadv, osv, obs, auxv>>

\* ------------------------------------------------------------------ helpers
NoChild == [st |-> "none", pipe |-> <<>>, hit |-> FALSE]
NoLocals == [url_extracted |-> FALSE, line |-> "", gate |-> "unread"]
NoObs == [pubCount |-> 0, published |-> <<>>, cbCalls |-> 0, setCount |-> 0,
          warnings |-> 0, late |-> FALSE, via |-> "none", written |-> 0,
          appended |-> <<>>]

\* no registration call under study
NoBuild == [op |-> "none", arg |-> <<>>, raised |-> "none",
            constructed |-> FALSE, before |-> <<>>]

\* no call of wait_for_condition under study
NoWait == [pc |-> "none"]

\* no match under study
NoLink == [pc |-> "none"]

\* What the caller learns from a successful start/__enter__; `again` when the
\* call directly follows a completed stop() on the same instance.
entered_as(first, again) ==
  IF ret \in {"stopped", "interrupted"} THEN again ELSE first


\* str.startswith (tunnel.py 363)
startswith(s, prefix) ==
  Len(s) >= Len(prefix) /\ SubSeq(s, 1, Len(prefix)) = prefix

\* regex.search(line) followed by matches.group() (tunnel.py 360-362): the
\* matched text, or "" when the pattern does not match the line.
search(pattern, line) ==
  CASE pattern = "ngrok" /\ line = "http://a.ngrok.io" -> "http://a.ngrok.io"
    [] pattern = "example" /\ line = "tunnel.example.com ready" -> "tunnel.example.com"
    [] OTHER -> ""

\* ------------------------------------------------------------------- Init
\* __init__ (tunnel.py 58-75) followed by the registration of the tunnels
\* (tunnel.py 147-148, 174-176).  check_local_port has its default (tunnel.py
\* 51); the value False is what start() forces for its session.  A session
\* callback is given; whether a call of it returns or raises is decided when
\* it is called.
Init ==
  /\ is_running = FALSE
  /\ urls = <<>>
  /\ urls_lock = "free"
  /\ jobs = <<>>
  /\ processes = <<>>
  /\ tunnel_list \in {SubSeq(SpecPool, 1, n) : n \in 0..Len(SpecPool)}
  /\ stop_event = FALSE
  /\ printed = FALSE
  /\ check_local_port = TRUE
  /\ callback = TRUE
  /\ cpc = "idle"
  /\ saved_clp = FALSE
  /\ ret = "constructed"
  /\ spc = "none"
  /\ si = 0
  /\ ppc = "none"
  /\ wpc = [w \in Workers |-> "none"]
  /\ wloc = [w \in Workers |-> NoLocals]
  /\ child = [w \in Workers |-> NoChild]
  /\ portBound = FALSE
  /\ obs = NoObs
  /\ build = NoBuild
  /\ wfc = NoWait
  /\ pl = NoLink

\* ------------------------------------------------- caller: __enter__, start
\* Mutant: __enter__ without its re-entrancy guard.
enter_check_no_running_guard ==
  IF tunnel_list = <<>> THEN "ValueError" ELSE "ok"

\* Mutant: __enter__ without the "No tunnels added" validation.
enter_check_no_empty_guard ==
  IF is_running THEN "RuntimeError" ELSE "ok"

\* __enter__ (tunnel.py 236-240): the exception it raises, or "ok".
enter_check ==
  IF is_running THEN "RuntimeError"
  ELSE IF tunnel_list = <<>> THEN "ValueError"
  ELSE "ok"

\* __enter__ (tunnel.py 245-262): start the print job, then one thread per
\* entry of tunnel_list; append each to jobs; set _is_running.  `by` names
\* the entry point for the observer.  The child slots are those of the new
\* session: a process of an earlier session that is still alive has no handle
\* left in the program.
enter_spawn(by) ==
  /\ jobs' = jobs \o <<0>> \o [i \in 1..Len(tunnel_list) |-> i]
  /\ ppc' = "p_start"
  /\ wpc' = [w \in Workers |-> IF w <= Len(tunnel_list) THEN "w_start" ELSE "none"]
  /\ wloc' = [w \in Workers |-> NoLocals]
  /\ is_running' = TRUE
  /\ child' = [w \in Workers |-> NoChild]
  /\ portBound' = FALSE
  /\ obs' = [NoObs EXCEPT !.via = by]

\* what a failed __enter__ leaves alone
enter_nothing ==
  UNCHANGED <<jobs, ppc, wpc, wloc, is_running, child, portBound, obs>>

\* `with tunnel:` entry, i.e. __enter__ called by the caller (tunnel.py 235-262)
Enter ==
  /\ cpc = "idle" /\ spc = "none"
  /\ ret' = IF enter_check = "ok" THEN entered_as("entered", "reentered")
                                  ELSE enter_check
  /\ IF enter_check = "ok"
       THEN enter_spawn("enter")
       ELSE enter_nothing
  /\ UNCHANGED <<urls, urls_lock, processes, tunnel_list, stop_event, printed,
                 check_local_port, callback, cpc, saved_clp, stopv>>
  /\ UNCHANGED auxv

\* start() up to and including its call of __enter__ (tunnel.py 185-192).
\* The guard of line 185 raises before anything is touched; otherwise
\* check_local_port is saved and forced to False, and __enter__ runs outside
\* the try/finally, so its ValueError leaves the forced value behind.
Start ==
  /\ cpc = "idle" /\ spc = "none"
  /\ IF is_running
       THEN /\ ret' = "RuntimeError"
            /\ enter_nothing
            /\ UNCHANGED <<check_local_port, saved_clp, cpc>>
       ELSE /\ check_local_port' = FALSE
            /\ saved_clp' = IF enter_check = "ok" THEN check_local_port ELSE FALSE
            /\ IF enter_check = "ok"
                 THEN /\ enter_spawn("start")
                      /\ cpc' = "start_wait"
                      /\ ret' = entered_as("started", "restarted")
                 ELSE /\ enter_nothing
                      /\ cpc' = "idle"
                      /\ ret' = enter_check
  /\ UNCHANGED <<urls, urls_lock, processes, tunnel_list, stop_event, printed,
                 callback, stopv>>
  /\ UNCHANGED auxv

\* Mutant: start() returns without waiting for the completion signal.
StartReturnNoWait ==
  /\ cpc = "start_wait" /\ spc = "none"
  /\ check_local_port' = saved_clp
  /\ saved_clp' = FALSE
  /\ cpc' = "idle"
  /\ ret' = "returned"
  /\ UNCHANGED <<is_running, urls, urls_lock, jobs, processes, tunnel_list,
                 stop_event, printed, callback, stopv, threadv, osv, obs>>
  /\ UNCHANGED auxv

\* start(): `while not self.printed.is_set(): time.sleep(1)` sees the flag,
\* then `finally` restores check_local_port (tunnel.py 194-201).
StartReturn ==
  /\ cpc = "start_wait" /\ spc = "none"
  /\ printed
  /\ check_local_port' = saved_clp
  /\ saved_clp' = FALSE
  /\ cpc' = "idle"
  /\ ret' = "returned"
  /\ UNCHANGED <<is_running, urls, urls_lock, jobs, processes, tunnel_list,
                 stop_event, printed, callback, stopv, threadv, osv, obs>>
  /\ UNCHANGED auxv

\* ------------------------------------------------------------ caller: stop
\* Mutant: stop() without its "Tunnel is not running" guard.
stop_check_no_guard == "ok"

\* stop() (tunnel.py 210-211)
stop_check == IF ~is_running THEN "RuntimeError" ELSE "ok"

\* stop() (tunnel.py 213-217): set the cancellation signal and begin the
\* iteration over self.processes.
stop_begin ==
  /\ stop_event' = TRUE
  /\ spc' = "terminate"
  /\ si' = 1

\* stop() called by the caller, directly or through __exit__ (tunnel.py 264-265)
Stop ==
  /\ cpc = "idle" /\ spc = "none"
  /\ IF stop_check = "ok"
       THEN stop_begin /\ ret' = "stopping"
       ELSE ret' = stop_check /\ UNCHANGED <<stop_event, spc, si>>
  /\ UNCHANGED <<is_running, urls, urls_lock, jobs, processes, tunnel_list,
                 printed, check_local_port, callback, cpc, saved_clp, threadv,
                 osv, obs>>
  /\ UNCHANGED auxv

\* start(): KeyboardInterrupt during the wait; the handler calls stop()
\* (tunnel.py 197-199).
KeyboardInterrupt ==
  /\ cpc = "start_wait" /\ spc = "none"
  /\ stop_check = "ok"
  /\ stop_begin
  /\ UNCHANGED <<is_running, urls, urls_lock, jobs, processes, tunnel_list,
                 printed, check_local_port, callback, callerv, threadv, osv,
                 obs>>
  /\ UNCHANGED auxv

\* stop(): one iteration of `for process in self.processes` (tunnel.py
\* 217-227).  The list iterator reads the list's current length at every
\* step, so an entry appended before the iterator is exhausted is visited.
\* poll/communicate(timeout=15)/kill end only when the process has exited.
\* communicate() competes with the worker for what is left in the pipe; the
\* worker is given all of it (it may still read every line written).
StopTerminate ==
  /\ spc = "terminate" /\ si <= Len(processes)
  /\ child' = [child EXCEPT ![processes[si]].st = "exited"]
  /\ si' = si + 1
  /\ UNCHANGED <<fields, callerv, spc, threadv, portBound, obs>>
  /\ UNCHANGED auxv

\* stop(): the iterator over self.processes is exhausted; begin
\* `for job in self.jobs` (tunnel.py 229).
StopTerminateEnd ==
  /\ spc = "terminate" /\ si > Len(processes)
  /\ spc' = "join"
  /\ si' = 1
  /\ UNCHANGED <<fields, callerv, threadv, osv, obs>>
  /\ UNCHANGED auxv

\* Thread.join returns once the thread has ended.
ended(job) == IF job = 0 THEN ppc = "done" ELSE wpc[job] = "done"

\* Mutant: stop() that does not wait for its threads to end.
StopJoinNoWait ==
  /\ spc = "join" /\ si <= Len(jobs)
  /\ si' = si + 1
  /\ UNCHANGED <<fields, callerv, spc, threadv, osv, obs>>
  /\ UNCHANGED auxv

\* stop(): job.join() (tunnel.py 229-231)
StopJoin ==
  /\ spc = "join" /\ si <= Len(jobs)
  /\ ended(jobs[si])
  /\ si' = si + 1
  /\ UNCHANGED <<fields, callerv, spc, threadv, osv, obs>>
  /\ UNCHANGED auxv

\* Mutant: reset() that forgets to clear the completion signal.
reset_keeps_printed ==
  /\ urls' = <<>>
  /\ jobs' = <<>>
  /\ processes' = <<>>
  /\ stop_event' = FALSE
  /\ printed' = printed
  /\ is_running' = FALSE

\* Mutant: reset() that forgets to clear the collected URLs.
reset_keeps_urls ==
  /\ urls' = urls
  /\ jobs' = <<>>
  /\ processes' = <<>>
  /\ stop_event' = FALSE
  /\ printed' = FALSE
  /\ is_running' = FALSE

\* reset() (tunnel.py 267-276)
reset ==
  /\ urls' = <<>>
  /\ jobs' = <<>>
  /\ processes' = <<>>
  /\ stop_event' = FALSE
  /\ printed' = FALSE
  /\ is_running' = FALSE

\* stop(): all jobs joined, self.reset() (tunnel.py 233), and stop returns:
\* to the caller, or into start()'s `finally` (tunnel.py 200-201).
StopReset ==
  /\ spc = "join" /\ si > Len(jobs)
  /\ reset
  /\ spc' = "none"
  /\ si' = 0
  /\ IF cpc = "start_wait"
       THEN /\ check_local_port' = saved_clp
            /\ saved_clp' = FALSE
            /\ cpc' = "idle"
            /\ ret' = "interrupted"
       ELSE /\ ret' = "stopped"
            /\ UNCHANGED <<check_local_port, saved_clp, cpc>>
  /\ UNCHANGED <<urls_lock, tunnel_list, callback, threadv, osv, obs>>
  /\ UNCHANGED auxv

\* ------------------------------------------------- operating system actions
\* The local service binds the port.  The port is probed only by a thread
\* waiting at its gate, so binding is observed from there.
PortBind ==
  /\ ~portBound
  /\ ppc = "p_gate" \/ \E w \in Workers : wpc[w] = "w_gate"
  /\ portBound' = TRUE
  /\ UNCHANGED <<fields, callerv, stopv, threadv, child, obs>>
  /\ UNCHANGED auxv

\* The child process of worker w writes one line to its stdout pipe while
\* its worker is still there to read it.  hit records that it has written a
\* line matching its own spec's pattern.
ChildWrite(w) ==
  /\ child[w].st = "running"
  /\ wpc[w] # "done"
  /\ obs.written < MaxWrites
  /\ \E l \in Output[w] :
       child' = [child EXCEPT
         ![w].pipe = Append(@, l),
         ![w].hit = @ \/ search(tunnel_list[w].pattern, l) # ""]
  /\ obs' = [obs EXCEPT !.written = @ + 1]
  /\ UNCHANGED <<fields, callerv, stopv, threadv, portBound>>
  /\ UNCHANGED auxv

\* The child process of worker w exits by itself.
ChildExit(w) ==
  /\ child[w].st = "running"
  /\ child' = [child EXCEPT ![w].st = "exited"]
  /\ UNCHANGED <<fields, callerv, stopv, threadv, portBound, obs>>
  /\ UNCHANGED auxv

\* ------------------------------------------------------- port gate (shared)
\* Mutant: the probe's result inverted (connect_ex(...) == 0).
is_port_available_inverted == portBound

\* is_port_available (tunnel.py 279-295): no listener accepts on the port.
is_port_available == ~portBound

\* the condition both threads wait for (tunnel.py 396 and 440)
gate_condition == ~is_port_available \/ stop_event

\* what was really the case when a thread left the gate
gate_seen ==
  IF portBound THEN "bound" ELSE IF stop_event THEN "cancel" ELSE "neither"

\* ------------------------------------------------------ worker thread: _run
\* The thread of worker w ends (tunnel.py 425-427).  Its locals die with it,
\* and what its child has written and it has not read is never read.
run_ends(w) ==
  /\ wpc' = [wpc EXCEPT ![w] = "done"]
  /\ wloc' = [wloc EXCEPT ![w] = NoLocals]
  /\ child' = [child EXCEPT ![w].pipe = <<>>]

\* _run (tunnel.py 390): read self.check_local_port.
RunStart(w) ==
  /\ wpc[w] = "w_start"
  /\ IF check_local_port
       THEN /\ wpc' = [wpc EXCEPT ![w] = "w_gate"]
            /\ wloc' = [wloc EXCEPT ![w].gate = "waiting"]
       ELSE /\ wpc' = [wpc EXCEPT ![w] = "w_popen"]
            /\ wloc' = [wloc EXCEPT ![w].gate = "off"]
  /\ UNCHANGED <<fields, callerv, stopv, ppc, osv, obs>>
  /\ UNCHANGED auxv

\* _run (tunnel.py 395-399): wait_for_condition(..., timeout=None) returns
\* once a poll finds the port bound or the stop event set.
RunGate(w) ==
  /\ wpc[w] = "w_gate"
  /\ gate_condition
  /\ wpc' = [wpc EXCEPT ![w] = "w_popen"]
  /\ wloc' = [wloc EXCEPT ![w].gate = gate_seen]
  /\ UNCHANGED <<fields, callerv, stopv, ppc, osv, obs>>
  /\ UNCHANGED auxv

\* _run (tunnel.py 400-410): subprocess.Popen starts the command.
RunPopen(w) ==
  /\ wpc[w] = "w_popen"
  /\ child' = [child EXCEPT ![w].st = "running"]
  /\ wpc' = [wpc EXCEPT ![w] = "w_register"]
  /\ UNCHANGED <<fields, callerv, stopv, ppc, wloc, portBound, obs>>
  /\ UNCHANGED auxv

\* _run (tunnel.py 402, 423-427): Popen raises (command not found); the
\* exception is logged and the thread ends.
RunPopenFails(w) ==
  /\ wpc[w] = "w_popen"
  /\ run_ends(w)
  /\ UNCHANGED <<fields, callerv, stopv, ppc, portBound, obs>>
  /\ UNCHANGED auxv

\* _run (tunnel.py 411): self.processes.append(process)
RunRegister(w) ==
  /\ wpc[w] = "w_register"
  /\ processes' = Append(processes, w)
  /\ wpc' = [wpc EXCEPT ![w] = "w_loop"]
  /\ wloc' = [wloc EXCEPT ![w].gate = "passed"]
  /\ UNCHANGED <<is_running, urls, urls_lock, jobs, tunnel_list, stop_event,
                 printed, check_local_port, callback, callerv, stopv, ppc,
                 osv, obs>>
  /\ UNCHANGED auxv

\* _run (tunnel.py 414): `while not self.stop_event.is_set() and
\* process.poll() is None`
RunLoop(w) ==
  /\ wpc[w] = "w_loop"
  /\ IF ~stop_event /\ child[w].st = "running"
       THEN /\ wpc' = [wpc EXCEPT ![w] = "w_read"]
            /\ UNCHANGED <<wloc, child>>
       ELSE run_ends(w)
  /\ UNCHANGED <<fields, callerv, stopv, ppc, portBound, obs>>
  /\ UNCHANGED auxv

\* Mutant: _run without the url_extracted test: every line is scanned.
RunReadAlwaysScans(w) ==
  /\ wpc[w] = "w_read"
  /\ IF child[w].pipe # <<>>
       THEN /\ child' = [child EXCEPT ![w].pipe = Tail(@)]
            /\ wpc' = [wpc EXCEPT ![w] = "w_process"]
            /\ wloc' = [wloc EXCEPT ![w].line = Head(child[w].pipe)]
       ELSE /\ child[w].st = "exited"
            /\ run_ends(w)
  /\ UNCHANGED <<fields, callerv, stopv, ppc, portBound, obs>>
  /\ UNCHANGED auxv

\* _run (tunnel.py 415-421): readline returns the next line of the pipe, or
\* '' at end of file (pipe empty and the process gone), which breaks the loop.
\* A line read after the URL was extracted is only logged.
RunRead(w) ==
  /\ wpc[w] = "w_read"
  /\ IF child[w].pipe # <<>>
       THEN /\ child' = [child EXCEPT ![w].pipe = Tail(@)]
            /\ IF wloc[w].url_extracted
                 THEN /\ wpc' = [wpc EXCEPT ![w] = "w_loop"]
                      /\ UNCHANGED wloc
                 ELSE /\ wpc' = [wpc EXCEPT ![w] = "w_process"]
                      /\ wloc' = [wloc EXCEPT ![w].line = Head(child[w].pipe)]
       ELSE /\ child[w].st = "exited"
            /\ run_ends(w)
  /\ UNCHANGED <<fields, callerv, stopv, ppc, portBound, obs>>
  /\ UNCHANGED auxv

\* _process_line (tunnel.py 356-360): the first entry of self.tunnel_list
\* whose pattern matches the line, 0 when none does.
RECURSIVE first_match(_, _)
first_match(line, i) ==
  IF i > Len(tunnel_list) THEN 0
  ELSE IF search(tunnel_list[i].pattern, line) # "" THEN i
  ELSE first_match(line, i + 1)

\* str.strip() of tunnel.py 362, for the blanks a match can carry
RECURSIVE lstrip(_)
lstrip(s) ==
  IF Len(s) > 0 /\ SubSeq(s, 1, 1) = " " THEN lstrip(SubSeq(s, 2, Len(s))) ELSE s

RECURSIVE rstrip(_)
rstrip(s) ==
  IF Len(s) > 0 /\ SubSeq(s, Len(s), Len(s)) = " "
    THEN rstrip(SubSeq(s, 1, Len(s) - 1))
    ELSE s

strip(s) == rstrip(lstrip(s))

\* `link if link.startswith("http") else "http://" + link` (tunnel.py 363)
normalize(link) ==
  IF startswith(link, "http") THEN link ELSE "http://" \o link

\* _process_line (tunnel.py 362-363)
link_of(tunnel, line) ==
  normalize(strip(search(tunnel.pattern, line)))

\* _process_line (tunnel.py 356-369) up to the append under urls_lock; with
\* no callback it returns True and _run sets url_extracted (tunnel.py 419).
RunProcessLine(w) ==
  /\ wpc[w] = "w_process"
  /\ LET i == first_match(wloc[w].line, 1) IN
       IF i = 0
         THEN /\ wpc' = [wpc EXCEPT ![w] = "w_loop"]
              /\ wloc' = [wloc EXCEPT ![w].line = ""]
              /\ UNCHANGED <<urls, obs>>
         ELSE /\ urls_lock = "free"
              /\ urls' = Append(urls, <<link_of(tunnel_list[i], wloc[w].line),
                                        tunnel_list[i].note>>)
              /\ obs' = [obs EXCEPT !.appended =
                           Append(@, <<w, link_of(tunnel_list[i], wloc[w].line),
                                       tunnel_list[i].note>>)]
              /\ IF tunnel_list[i].callback
                   THEN /\ wpc' = [wpc EXCEPT ![w] = "w_callback"]
                        /\ wloc' = [wloc EXCEPT ![w].line = ""]
                   ELSE /\ wpc' = [wpc EXCEPT ![w] = "w_loop"]
                        /\ wloc' = [wloc EXCEPT ![w].line = "",
                                                ![w].url_extracted = TRUE]
  /\ UNCHANGED <<is_running, urls_lock, jobs, processes, tunnel_list,
                 stop_event, printed, check_local_port, callback, callerv,
                 stopv, ppc, osv>>
  /\ UNCHANGED auxv

\* _process_line (tunnel.py 366-368): the per-tunnel callback returns.
RunCallbackReturns(w) ==
  /\ wpc[w] = "w_callback"
  /\ wpc' = [wpc EXCEPT ![w] = "w_loop"]
  /\ wloc' = [wloc EXCEPT ![w].url_extracted = TRUE]
  /\ UNCHANGED <<fields, callerv, stopv, ppc, osv, obs>>
  /\ UNCHANGED auxv

\* _process_line (tunnel.py 367) raises; _run's `except Exception`
\* (tunnel.py 423-427) logs it and the thread ends.
RunCallbackRaises(w) ==
  /\ wpc[w] = "w_callback"
  /\ run_ends(w)
  /\ UNCHANGED <<fields, callerv, stopv, ppc, portBound, obs>>
  /\ UNCHANGED auxv

\* --------------------------------------------------- aggregator: _print
\* _print (tunnel.py 436): read self.check_local_port.
PrintStart ==
  /\ ppc = "p_start"
  /\ ppc' = IF check_local_port THEN "p_gate" ELSE "p_wait"
  /\ UNCHANGED <<fields, callerv, stopv, wpc, wloc, osv, obs>>
  /\ UNCHANGED auxv

\* _print (tunnel.py 439-445)
PrintGate ==
  /\ ppc = "p_gate"
  /\ gate_condition
  /\ ppc' = "p_wait"
  /\ UNCHANGED <<fields, callerv, stopv, wpc, wloc, osv, obs>>
  /\ UNCHANGED auxv

\* _print (tunnel.py 449): the condition polled by wait_for_condition; the
\* length of self.urls is read without the lock.
print_condition == Len(urls) = Len(tunnel_list) \/ stop_event

\* wait_for_condition (tunnel.py 324-326): a poll finds the condition true.
\* (A poll that finds it false with time left sleeps and polls again:
\* tunnel.py 328-344, no change of state.)
PrintPoll ==
  /\ ppc = "p_wait"
  /\ print_condition
  /\ ppc' = "p_check"
  /\ UNCHANGED <<fields, callerv, stopv, wpc, wloc, osv, obs>>
  /\ UNCHANGED auxv

\* The worker of tunnel w has nothing more to deliver: _run has ended, or its
\* url_extracted flag is set (tunnel.py 418-419).
settled(w) == wpc[w] = "done" \/ wloc[w].url_extracted

\* wait_for_condition (tunnel.py 325-336): a poll finds the condition false
\* and the timeout has elapsed, so it returns False; _print logs the warning
\* (tunnel.py 453).  late records that the timeout came too early for some
\* tunnel: its child had not yet written a line matching its pattern, or its
\* worker was still on the way to handling that line (the timeout is tens of
\* seconds, a worker's handling of a line is not).
PrintTimeout ==
  /\ ppc = "p_wait"
  /\ ~print_condition
  /\ ppc' = "p_check"
  /\ obs' = [obs EXCEPT !.warnings = @ + 1,
                        !.late = \E w \in 1..Len(tunnel_list) :
                                   ~child[w].hit \/ ~settled(w)]
  /\ UNCHANGED <<fields, callerv, stopv, wpc, wloc, osv>>
  /\ UNCHANGED auxv

\* _print (tunnel.py 456): `if not self.stop_event.is_set()`
PrintCheck ==
  /\ ppc = "p_check"
  /\ ppc' = IF ~stop_event THEN "p_publish" ELSE "done"
  /\ UNCHANGED <<fields, callerv, stopv, wpc, wloc, osv, obs>>
  /\ UNCHANGED auxv

\* _print (tunnel.py 457-459): take urls_lock and log every URL.
PrintPublish ==
  /\ ppc = "p_publish"
  /\ urls_lock = "free"
  /\ urls_lock' = "print"
  /\ obs' = [obs EXCEPT !.pubCount = @ + 1, !.published = urls]
  /\ ppc' = "p_callback"
  /\ UNCHANGED <<is_running, urls, jobs, processes, tunnel_list, stop_event,
                 printed, check_local_port, callback, callerv, stopv, wpc,
                 wloc, osv>>
  /\ UNCHANGED auxv

\* _print (tunnel.py 460-461): `if self.callback: self.callback(self.urls)`
\* with the lock held, and the callback returns; leaving the `with` block
\* releases the lock.
PrintCallbackReturns ==
  /\ ppc = "p_callback"
  /\ urls_lock' = "free"
  /\ obs' = [obs EXCEPT !.cbCalls = IF callback THEN @ + 1 ELSE @]
  /\ ppc' = "p_set"
  /\ UNCHANGED <<is_running, urls, jobs, processes, tunnel_list, stop_event,
                 printed, check_local_port, callback, callerv, stopv, wpc,
                 wloc, osv>>
  /\ UNCHANGED auxv

\* _print (tunnel.py 461): the session callback raises.  The `with` block
\* releases the lock, nothing catches the exception and the thread ends
\* before line 462.
PrintCallbackRaises ==
  /\ ppc = "p_callback"
  /\ callback
  /\ urls_lock' = "free"
  /\ obs' = [obs EXCEPT !.cbCalls = @ + 1]
  /\ ppc' = "done"
  /\ UNCHANGED <<is_running, urls, jobs, processes, tunnel_list, stop_event,
                 printed, check_local_port, callback, callerv, stopv, wpc,
                 wloc, osv>>
  /\ UNCHANGED auxv

\* Mutant: the aggregator goes back to waiting after signalling completion.
PrintSetAndWaitAgain ==
  /\ ppc = "p_set"
  /\ printed' = TRUE
  /\ obs' = [obs EXCEPT !.setCount = @ + 1]
  /\ ppc' = "p_wait"
  /\ UNCHANGED <<is_running, urls, urls_lock, jobs, processes, tunnel_list,
                 stop_event, check_local_port, callback, callerv, stopv, wpc,
                 wloc, osv>>
  /\ UNCHANGED auxv

\* _print (tunnel.py 462): self.printed.set()
PrintSet ==
  /\ ppc = "p_set"
  /\ printed' = TRUE
  /\ obs' = [obs EXCEPT !.setCount = @ + 1]
  /\ ppc' = "done"
  /\ UNCHANGED <<is_running, urls, urls_lock, jobs, processes, tunnel_list,
                 stop_event, check_local_port, callback, callerv, stopv, wpc,
                 wloc, osv>>
  /\ UNCHANGED auxv

\* ------------------------------------------------------------ specification
Next ==
  \/ Enter
  \/ Start
  \/ StartReturn
  \/ KeyboardInterrupt
  \/ Stop
  \/ StopTerminate
  \/ StopTerminateEnd
  \/ StopJoin
  \/ StopReset
  \/ PortBind
  \/ \E w \in Workers : ChildWrite(w)
  \/ \E w \in Workers : ChildExit(w)
  \/ \E w \in Workers : RunStart(w)
  \/ \E w \in Workers : RunGate(w)
  \/ \E w \in Workers : RunPopen(w)
  \/ \E w \in Workers : RunPopenFails(w)
  \/ \E w \in Workers : RunRegister(w)
  \/ \E w \in Workers : RunLoop(w)
  \/ \E w \in Workers : RunRead(w)
  \/ \E w \in Workers : RunProcessLine(w)
  \/ \E w \in Workers : RunCallbackReturns(w)
  \/ \E w \in Workers : RunCallbackRaises(w)
  \/ PrintStart
  \/ PrintGate
  \/ PrintPoll
  \/ PrintTimeout
  \/ PrintCheck
  \/ PrintPublish
  \/ PrintCallbackReturns
  \/ PrintCallbackRaises
  \/ PrintSet

Spec == Init /\ [][Next]_vars

\* ------------------------------------------------------------------ claims
\* stop() has returned to the caller (directly, or inside an interrupted
\* start()) and no call has been made since.
StopReturned == ret \in {"stopped", "interrupted"}

\* number of registered specs
N == Len(tunnel_list)

\* a session is under way and no cancellation has been requested in it
NotCancelled == is_running /\ ~stop_event

\* C1: after stop returns, every child process spawned by a worker of the
\* session has exited.
C1_StopEndsEveryChild ==
  StopReturned => \A w \in Workers : child[w].st # "running"

\* C2: in a session that is not cancelled and in which every command wrote a
\* line matching its pattern before the timeout, the aggregator publishes
\* exactly N URLs and sets the completion signal.
C2_AllMatchedAllPublished ==
  ( /\ NotCancelled
    /\ ~obs.late
    /\ \A w \in 1..N : child[w].hit )
  => ( /\ obs.pubCount > 0 => Len(obs.published) = N
       /\ ppc = "done" => (printed /\ obs.pubCount = 1) )

\* C3: once cancellation is requested and completion has not been signalled,
\* the aggregator logs no URL, does not call the session callback and does
\* not set the completion signal.
C3_CancelledPublishesNothing ==
  [][ (stop_event /\ ~printed)
      => ( /\ obs'.pubCount = obs.pubCount
           /\ obs'.cbCalls = obs.cbCalls
           /\ ~printed' ) ]_vars

C5_StopLeavesFreshState ==
  StopReturned =>
    /\ urls = <<>> /\ jobs = <<>> /\ processes = <<>>
    /\ ~stop_event /\ ~printed /\ ~is_running
    /\ urls_lock = "free"

\* C5 witness: stop has returned from a session in which URLs were
\* discovered and published.
C5_Witness ==
  StopReturned /\ Len(obs.published) = N /\ N > 1 /\ obs.setCount = 1

\* C6: start() or __enter__ called while isRunning is true raises RuntimeError
\* and changes nothing: no thread, no process, and urls, jobs, processes, both
\* signals and isRunning keep their values.
C6_StartWhileRunningRejected ==
  [][ (is_running /\ (Start \/ Enter))
      => ( /\ ret' = "RuntimeError"
           /\ UNCHANGED <<fields, stopv, threadv, osv, obs>> ) ]_vars

\* C6 witness: a start/enter call was rejected in the middle of a session
\* (threads alive, a URL already collected).
C6_Witness ==
  is_running /\ ret = "RuntimeError" /\ urls # <<>> /\ ppc # "done"

\* C7: stop() called while isRunning is false raises RuntimeError and has no
\* side effect: the cancellation signal is not set, and urls, jobs, processes
\* and the completion signal are unchanged.
C7_StopWhileIdleRejected ==
  [][ (~is_running /\ Stop)
      => ( /\ ret' = "RuntimeError"
           /\ UNCHANGED <<fields, stopv, threadv, osv, obs>> ) ]_vars

\* C7 witness: a stop call was rejected on an idle instance.
C7_Witness ==
  ~is_running /\ ret = "RuntimeError" /\ ~stop_event /\ spc = "none"

\* C8: start() or __enter__ with no registered spec raises ValueError, starts
\* no aggregator thread, no worker thread and no process, and leaves
\* isRunning false.
C8_StartWithoutSpecsRejected ==
  [][ (tunnel_list = <<>> /\ ~is_running /\ (Start \/ Enter))
      => ( /\ ret' = "ValueError"
           /\ ~is_running'
           /\ UNCHANGED <<jobs, processes, threadv, child>> ) ]_vars

\* C8 witness: a start/enter call on an instance without specs was rejected
\* and no thread exists.
C8_Witness ==
  /\ tunnel_list = <<>> /\ ret = "ValueError"
  /\ ~is_running /\ jobs = <<>> /\ ppc = "none"

\* C9: if the bounded wait times out (fewer than N matches) and no
\* cancellation is requested, the aggregator publishes the subset, logs exactly
\* one timeout warning and sets the completion signal.
C9_TimeoutStillCompletes ==
  (NotCancelled /\ ppc = "done" /\ obs.warnings > 0)
  => (obs.pubCount = 1 /\ obs.warnings = 1 /\ printed)

\* C10: within one session the aggregator publishes the URL list at most once
\* and sets the completion signal at most once.
C10_PublishedAtMostOnce ==
  obs.pubCount <= 1 /\ obs.setCount <= 1

\* C10 witness: the aggregator has published and signalled completion while
\* workers and stop() were still active.
C10_Witness ==
  /\ obs.pubCount = 1 /\ obs.setCount = 1
  /\ spc # "none"
  /\ \E w \in Workers : wpc[w] \notin {"none", "done"}

\* C11: the scoped form.  After __enter__ has returned the session is running
\* with its aggregator and one worker per spec in jobs; after __exit__ (stop)
\* has returned from such a session, the aggregator thread and every worker
\* thread have ended and been joined, and isRunning is false.
C11_ScopedFormEndsIdle ==
  /\ ret \in {"entered", "reentered"} => (is_running /\ Len(jobs) = N + 1)
  /\ (ret = "stopped" /\ obs.via = "enter")
     => ( /\ ~is_running
          /\ ppc = "done"
          /\ \A w \in 1..N : wpc[w] = "done"
          /\ jobs = <<>> )

\* C11 witness: a scoped session of two tunnels whose children wrote output
\* has been left, and stop has returned.
C11_Witness ==
  /\ ret = "stopped" /\ obs.via = "enter"
  /\ N = 2 /\ obs.written > 0
  /\ ppc = "done" /\ \A w \in 1..N : wpc[w] = "done"

\* C12: when start() has returned normally the completion signal is set and
\* isRunning is still true; when it has returned after a keyboard interrupt,
\* stop has run: isRunning is false and the shared state is reset.
C12_StartReturnsPublishedOrStopped ==
  /\ ret = "returned" => (printed /\ is_running)
  /\ ret = "interrupted"
     => ( /\ ~is_running
          /\ urls = <<>> /\ jobs = <<>> /\ processes = <<>>
          /\ ~stop_event /\ ~printed )

\* C12 witness: start() has returned normally after the aggregator published
\* a URL.
C12_Witness ==
  /\ ret = "returned" /\ cpc = "idle"
  /\ obs.setCount = 1 /\ Len(obs.published) > 0

\* C13: a start/__enter__ that follows a completed stop succeeds, the new
\* session has exactly one aggregator and one worker per spec, urls is empty
\* and both signals are clear; and whatever the aggregator publishes is, entry
\* for entry, what workers of the current session appended.
C13_RestartAfterStop ==
  [][ /\ (StopReturned /\ (Start \/ Enter))
         => ( /\ ret' \in {"reentered", "restarted"}
              /\ is_running'
              /\ jobs' = <<0>> \o [i \in 1..N |-> i]
              /\ ppc' = "p_start"
              /\ \A w \in 1..N : wpc'[w] = "w_start"
              /\ urls' = <<>>
              /\ ~stop_event' /\ ~printed' )
      /\ Len(obs'.published) <= Len(obs'.appended)
      /\ \A i \in 1..Len(obs'.published) :
           obs'.published[i] = <<obs'.appended[i][2], obs'.appended[i][3]>>
    ]_vars

\* C13 witness: in a session begun right after a completed stop, the
\* aggregator has published one URL per spec.
C13_Witness ==
  /\ ret \in {"reentered", "restarted"}
  /\ N > 0 /\ obs.pubCount = 1 /\ Len(obs.published) = N

\* the entries of urls that worker w appended in the current session
appended_by(w) == {i \in 1..Len(obs.appended) : obs.appended[i][1] = w}

\* C19: urls never holds more entries than there are registered specs, and
\* no worker appends more than one entry in a session.
C19_AtMostOneUrlPerWorker ==
  /\ Len(urls) <= N
  /\ \A w \in Workers : Cardinality(appended_by(w)) <= 1

\* C19 witness: a worker has extracted its URL, then read a further line and
\* only drained it.
C19_Witness ==
  \E w \in 1..N :
    /\ wloc[w].url_extracted /\ wpc[w] = "w_loop"
    /\ appended_by(w) # {}
    /\ obs.written = MaxWrites /\ \A v \in Workers : child[v].pipe = <<>>
    /\ N = 1

\* C20: urls holds at most one entry per spec, and every entry was appended
\* by the worker of the spec whose note it carries.
C20_EntryByOwnWorkerOnly ==
  /\ \A i, j \in 1..Len(obs.appended) :
       obs.appended[i][3] = obs.appended[j][3] => i = j
  /\ \A i \in 1..Len(obs.appended) :
       obs.appended[i][3] = tunnel_list[obs.appended[i][1]].note

\* ===================================================== registration of specs
\* with_tunnel_list and add_tunnel studied on their own.  A value is known by
\* its type: "str", "int" (any other type), "Pattern" (a compiled re.Pattern),
\* or "absent" when the key is not given.  Pattern strings are well-formed
\* regular expressions.
\* Longest list passed to with_tunnel_list.
MaxList == 2

\* Most specs registered on one instance.
MaxSpecs == 2

\* the rest of the instance, which registration does not touch
sessionv == <<is_running, urls, urls_lock, jobs, processes, stop_event, printed,
              check_local_port, callback, callerv, stopv, threadv, osv, obs>>

\* the keyword arguments / dictionaries a caller may pass
DictEntries ==
  [dict : {TRUE}, command : {"absent", "str", "int"},
   pattern : {"absent", "str", "Pattern", "int"},
   name : {"absent", "str", "int"}]

\* a list element that is not a dictionary
NotADict ==
  [dict |-> FALSE, command |-> "absent", pattern |-> "absent", name |-> "absent"]

Entries == DictEntries \cup {NotADict}

\* the lists a caller may pass to with_tunnel_list
Lists == UNION {[1..n -> Entries] : n \in 0..MaxList}

\* Mutant: the validation forgets to check the type of name.
valid_entry_name_untyped(i) ==
  /\ i.dict
  /\ i.command # "absent" /\ i.pattern # "absent" /\ i.name # "absent"
  /\ i.command = "str"
  /\ i.pattern \in {"Pattern", "str"}

\* with_tunnel_list (tunnel.py 122-127): the test applied to each element
valid_entry(i) ==
  /\ i.dict
  /\ i.command # "absent" /\ i.pattern # "absent" /\ i.name # "absent"
  /\ i.command = "str"
  /\ i.pattern \in {"Pattern", "str"}
  /\ i.name = "str"

\* add_tunnel (tunnel.py 151-158): command, pattern and name are keyword-only
\* parameters without default; the call fails with TypeError when one is not
\* given.  Nothing else is checked.
add_raises(kw) ==
  IF kw.command = "absent" \/ kw.pattern = "absent" \/ kw.name = "absent"
    THEN "TypeError" ELSE "none"

\* add_tunnel (tunnel.py 171-176): a str pattern is compiled, and the
\* dictionary appended holds the arguments as given.
stored(kw) ==
  [command |-> kw.command,
   pattern |-> IF kw.pattern = "str" THEN "Pattern" ELSE kw.pattern,
   name |-> kw.name]

\* with_tunnel_list (tunnel.py 147-148): add_tunnel(**tunnel) for each element
RECURSIVE add_all(_, _)
add_all(list, acc) ==
  IF list = <<>> THEN acc
  ELSE add_all(Tail(list), Append(acc, stored(Head(list))))

\* Either Tunnel(port) has been called (an instance without specs), or nothing
\* is constructed yet and with_tunnel_list is about to be called with arg.
InitBuild ==
  /\ is_running = FALSE /\ urls = <<>> /\ urls_lock = "free"
  /\ jobs = <<>> /\ processes = <<>> /\ tunnel_list = <<>>
  /\ stop_event = FALSE /\ printed = FALSE
  /\ check_local_port = TRUE /\ callback = TRUE
  /\ cpc = "idle" /\ saved_clp = FALSE /\ ret = "constructed"
  /\ spc = "none" /\ si = 0 /\ ppc = "none"
  /\ wpc = [w \in Workers |-> "none"]
  /\ wloc = [w \in Workers |-> NoLocals]
  /\ child = [w \in Workers |-> NoChild]
  /\ portBound = FALSE
  /\ obs = NoObs
  /\ wfc = NoWait
  /\ pl = NoLink
  /\ \/ build = [NoBuild EXCEPT !.constructed = TRUE]
     \/ \E list \in Lists : build = [NoBuild EXCEPT !.arg = list]

\* Tunnel.with_tunnel_list(port, build.arg) (tunnel.py 121-149)
WithTunnelList ==
  /\ build.op = "none" /\ ~build.constructed
  /\ LET list == build.arg IN
       IF list = <<>> \/ ~(\A n \in 1..Len(list) : valid_entry(list[n]))
         THEN /\ build' = [build EXCEPT !.op = "with_tunnel_list",
                                        !.raised = "ValueError"]
              /\ UNCHANGED tunnel_list
         ELSE /\ tunnel_list' = add_all(list, <<>>)
              /\ build' = [build EXCEPT !.op = "with_tunnel_list",
                                        !.constructed = TRUE]
  /\ UNCHANGED <<sessionv, wfc, pl>>

\* tunnel.add_tunnel(**kw) on the instance (tunnel.py 151-176)
AddTunnel(kw) ==
  /\ build.constructed
  /\ Len(tunnel_list) < MaxSpecs
  /\ IF add_raises(kw) # "none"
       THEN UNCHANGED tunnel_list
       ELSE tunnel_list' = Append(tunnel_list, stored(kw))
  /\ build' = [op |-> "add_tunnel", arg |-> <<kw>>, raised |-> add_raises(kw),
               constructed |-> TRUE, before |-> tunnel_list]
  /\ UNCHANGED <<sessionv, wfc, pl>>

NextBuild ==
  \/ WithTunnelList
  \/ \E kw \in DictEntries : AddTunnel(kw)

SpecBuild == InitBuild /\ [][NextBuild]_vars

\* an entry lacks one of command/pattern/name, or has one of the wrong type
malformed(e) ==
  \/ ~e.dict
  \/ e.command # "str"
  \/ e.name # "str"
  \/ e.pattern \notin {"str", "Pattern"}

C15_AddTunnelValidates ==
  build.op = "add_tunnel" =>
    LET kw == build.arg[1] IN
      IF malformed(kw)
        THEN build.raised \in {"ValueError", "TypeError"}
             /\ tunnel_list = build.before
        ELSE build.raised = "none"
             /\ tunnel_list = Append(build.before, stored(kw))

\* ========================================================= wait_for_condition
\* One call of wait_for_condition studied on its own.  Time is read in whole
\* units (seconds): remaining_time / (checks_count + 1) is taken rounded
\* down, and a sleep of d advances the clock by d rounded down, or by one
\* unit more (the fraction, and the time the iteration itself takes).
\* Largest timeout argument.
MaxTimeout == 3

\* Largest interval argument.
MaxInterval == 2

\* Most iterations of one call during which the clock does not advance.
MaxStall == 2

\* Most polls of one call without timeout.
MaxPolls == 3

\* Mutant: the deadline test answers "timed out" whatever time remains.
timed_out_always(remaining_time) == TRUE

\* wait_for_condition (tunnel.py 335): `if remaining_time <= 0`
timed_out(remaining_time) == remaining_time <= 0

\* Mutant: the interval is not adjusted to the remaining time.
next_interval_unadjusted(interval, remaining_time, checks_count) == interval

\* wait_for_condition (tunnel.py 340):
\* min(interval, remaining_time / (checks_count + 1))
next_interval_of(interval, remaining_time, checks_count) ==
  LET share == remaining_time \div (checks_count + 1)
  IN IF interval <= share THEN interval ELSE share

\* The call is made: condition is any predicate, interval (at least 1, as
\* everywhere in tunnel.py) and timeout are the caller's; timeout None is
\* bounded = FALSE.
InitWait ==
  /\ is_running = FALSE /\ urls = <<>> /\ urls_lock = "free"
  /\ jobs = <<>> /\ processes = <<>> /\ tunnel_list = <<>>
  /\ stop_event = FALSE /\ printed = FALSE
  /\ check_local_port = TRUE /\ callback = TRUE
  /\ cpc = "idle" /\ saved_clp = FALSE /\ ret = "constructed"
  /\ spc = "none" /\ si = 0 /\ ppc = "none"
  /\ wpc = [w \in Workers |-> "none"]
  /\ wloc = [w \in Workers |-> NoLocals]
  /\ child = [w \in Workers |-> NoChild]
  /\ portBound = FALSE
  /\ obs = NoObs
  /\ build = NoBuild
  /\ pl = NoLink
  /\ \E i \in 1..MaxInterval, b \in BOOLEAN, t \in 0..MaxTimeout :
       /\ ~b => t = 0
       /\ wfc = [pc |-> "called", interval |-> i, bounded |-> b, timeout |-> t,
                 now |-> 0, elapsed_time |-> 0, checks_count |-> 0,
                 next_interval |-> 0, result |-> FALSE,
                 sawTrue |-> FALSE, polls |-> 0, sleeps |-> 0, slept |-> 0,
                 stalls |-> 0]

\* wait_for_condition (tunnel.py 314-322): start_time is taken, the counters
\* are zeroed and a given timeout is raised to at least 1.
WaitEnter ==
  /\ wfc.pc = "called"
  /\ wfc' = [wfc EXCEPT
       !.pc = "poll",
       !.timeout = IF wfc.bounded /\ wfc.timeout < 1 THEN 1 ELSE @]
  /\ UNCHANGED <<fields, callerv, stopv, threadv, osv, obs, build, pl>>

\* wait_for_condition (tunnel.py 325-328): `if condition(): return True`,
\* else checks_count += 1.  b is what the predicate answers this time.
WaitPoll(b) ==
  /\ wfc.pc = "poll"
  /\ (~b /\ ~wfc.bounded) => wfc.checks_count < MaxPolls
  /\ wfc' = IF b
       THEN [wfc EXCEPT !.pc = "returned", !.result = TRUE,
                        !.sawTrue = TRUE, !.polls = @ + 1]
       ELSE [wfc EXCEPT !.pc = "check", !.checks_count = @ + 1,
                        !.polls = @ + 1]
  /\ UNCHANGED <<fields, callerv, stopv, threadv, osv, obs, build, pl>>

\* wait_for_condition (tunnel.py 330-342): with a timeout, measure the
\* elapsed time, return False when nothing remains, else shrink the interval;
\* without one, keep the interval.
WaitCheck ==
  /\ wfc.pc = "check"
  /\ wfc' =
       IF ~wfc.bounded
         THEN [wfc EXCEPT !.pc = "sleep", !.next_interval = wfc.interval]
       ELSE IF timed_out(wfc.timeout - wfc.now)
         THEN [wfc EXCEPT !.pc = "returned", !.result = FALSE,
                          !.elapsed_time = wfc.now]
       ELSE [wfc EXCEPT !.pc = "sleep", !.elapsed_time = wfc.now,
                        !.next_interval =
                          next_interval_of(wfc.interval, wfc.timeout - wfc.now,
                                           wfc.checks_count)]
  /\ UNCHANGED <<fields, callerv, stopv, threadv, osv, obs, build, pl>>

\* wait_for_condition (tunnel.py 344): time.sleep(next_interval).  The clock
\* advances by the time slept plus lag; it stands still in at most MaxStall
\* iterations of a call.
WaitSleep(lag) ==
  /\ wfc.pc = "sleep"
  /\ wfc.next_interval + lag = 0 => wfc.stalls < MaxStall
  /\ wfc' = [wfc EXCEPT
       !.pc = "poll",
       !.now = @ + wfc.next_interval + lag,
       !.sleeps = @ + 1,
       !.slept = @ + wfc.next_interval,
       !.stalls = IF wfc.next_interval + lag = 0 THEN @ + 1 ELSE @]
  /\ UNCHANGED <<fields, callerv, stopv, threadv, osv, obs, build, pl>>

NextWait ==
  \/ WaitEnter
  \/ \E b \in BOOLEAN : WaitPoll(b)
  \/ WaitCheck
  \/ \E lag \in {0, 1} : WaitSleep(lag)

SpecWait == InitWait /\ [][NextWait]_vars

\* The thread running the call is scheduled again and again.
SpecWaitFair == SpecWait /\ WF_vars(NextWait)

\* C16: the predicate is polled before any sleep, so a call whose predicate
\* is true at once returns true without sleeping; the call returns true
\* exactly when a poll saw the predicate true, and returns false only with a
\* timeout, once the deadline is reached and every poll saw it false.
C16_WaitReturnsWhatPollsSaw ==
  /\ wfc.pc = "poll" => wfc.sleeps = wfc.polls
  /\ wfc.pc \in {"check", "sleep", "returned"} => wfc.sleeps = wfc.polls - 1
  /\ wfc.pc \notin {"called", "returned"} => ~wfc.sawTrue
  /\ wfc.pc = "returned" =>
       /\ wfc.result = wfc.sawTrue
       /\ (wfc.result /\ wfc.polls = 1) => (wfc.sleeps = 0 /\ wfc.now = 0)
       /\ ~wfc.result => (wfc.bounded /\ wfc.now >= wfc.timeout)

\* C16 witness: the predicate was true at the first poll and the call
\* returned true without having slept.
C16_Witness ==
  /\ wfc.pc = "returned" /\ wfc.result
  /\ wfc.polls = 1 /\ wfc.sleeps = 0

\* C17: with a timeout, no sleep is longer than the time remaining, a call
\* that returns false has waited no longer than the timeout plus one
\* interval, and the call always returns (false when the predicate never
\* becomes true).
C17_BoundedWaitTerminates ==
  /\ [](wfc.bounded =>
          /\ wfc.pc = "sleep" => wfc.next_interval <= wfc.timeout - wfc.elapsed_time
          /\ wfc.slept <= wfc.timeout
          /\ (wfc.pc = "returned" /\ ~wfc.sawTrue)
             => (~wfc.result /\ wfc.now <= wfc.timeout + wfc.interval))
  /\ ((wfc.bounded /\ wfc.pc = "called") ~> (wfc.pc = "returned"))

\* C17 witness: a call with a timeout has returned false after several polls
\* that all saw the predicate false.
C17_Witness ==
  /\ wfc.bounded /\ wfc.pc = "returned" /\ ~wfc.result
  /\ wfc.polls >= 3 /\ wfc.slept > 0

\* C18: every interval slept between two polls is at least 1 unit.
C18_SleepAtLeastOneUnit ==
  wfc.pc = "sleep" => wfc.next_interval >= 1

\* ======================================== sessions: errors, locking, start()
\* The thread of worker w ended by an exception and no cancellation is under
\* way: its command was never launched (Popen raised), or it ended although
\* its child still runs (the per-tunnel callback raised).
failed(w) ==
  /\ wpc[w] = "done"
  /\ child[w].st = "none" \/ (child[w].st = "running" /\ ~stop_event)

\* C21: when a worker failed (launch or per-tunnel callback raised) in a
\* session that is not cancelled, the aggregator still publishes once and
\* sets the completion signal.
C21_WorkerErrorIsolated ==
  (NotCancelled /\ ppc = "done" /\ \E w \in 1..N : failed(w))
  => (obs.pubCount = 1 /\ printed)

\* C22: urls is mutated and read only by a thread holding urls_lock: urls
\* changes only in a step that takes the lock (the only one is a worker's
\* append, so reset's replacement is not one), the aggregator polls its
\* length with the lock held, and during a session its length is the number
\* of completed appends.
C22_UrlsOnlyUnderLock ==
  [][ /\ urls' # urls => \E w \in Workers : RunProcessLine(w)
      /\ (PrintPoll \/ PrintTimeout) => urls_lock = "print"
      /\ is_running' => Len(urls') = Len(obs'.appended)
    ]_vars

\* C23: no callback runs while its thread holds urls_lock: the lock is free
\* of the aggregator while the session callback runs, and free while a
\* per-tunnel callback runs.
C23_CallbacksOutsideLock ==
  /\ (ppc = "p_callback" /\ callback) => urls_lock # "print"
  /\ (\E w \in Workers : wpc[w] = "w_callback") => urls_lock \in {"free", "print"}

\* C25: whenever the caller is outside start() (it returned, or raised),
\* check_local_port has the value configured at construction.
C25_StartRestoresCheckLocalPort ==
  cpc = "idle" => check_local_port = TRUE

\* The steps the program's own threads take whenever they are scheduled: the
\* caller inside start() or stop(), the workers (threads started at
\* tunnel.py 251-260) and the aggregator (started at 246-248).  What the
\* caller chooses to do next, the keyboard interrupt, the local server and the
\* child processes are under no obligation to act.
ThreadStep ==
  \/ StartReturn
  \/ StopTerminate \/ StopTerminateEnd \/ StopJoin \/ StopReset
  \/ \E w \in Workers :
       \/ RunStart(w) \/ RunGate(w) \/ RunPopen(w) \/ RunPopenFails(w)
       \/ RunRegister(w) \/ RunLoop(w) \/ RunRead(w) \/ RunProcessLine(w)
       \/ RunCallbackReturns(w) \/ RunCallbackRaises(w)
  \/ PrintStart \/ PrintGate \/ PrintPoll \/ PrintTimeout \/ PrintCheck
  \/ PrintPublish \/ PrintCallbackReturns \/ PrintCallbackRaises \/ PrintSet

\* Sessions under fair scheduling of the program's threads.
SpecFair == Spec /\ WF_vars(ThreadStep)

\* C26: under fair scheduling, whenever the caller is waiting inside start()
\* it eventually leaves it (by returning, or through the interrupt handler),
\* whatever the child processes and the callbacks do.
C26_StartEventuallyReturns ==
  (cpc = "start_wait") ~> (cpc = "idle")

\* ================================================== _process_line: the link
\* What a pattern can capture: optional blanks around an optional scheme, a
\* host name and an optional path.
Leads == {"", " "}
Schemes == {"", "http://", "https://"}
Hosts == {"a.ngrok.io", "tunnel.example.com", "httpbin.org", "http.dev",
          "localhost.run"}
Tails == {"", "/x", " "}

\* `matches = regex.search(line)` has matched (tunnel.py 360-361);
\* matches.group() is any captured text.
InitLink ==
  /\ tunnel_list = SpecPool
  /\ is_running = FALSE
  /\ urls = <<>>
  /\ urls_lock = "free"
  /\ jobs = <<>>
  /\ processes = <<>>
  /\ stop_event = FALSE
  /\ printed = FALSE
  /\ check_local_port = TRUE
  /\ callback = TRUE
  /\ cpc = "idle" /\ saved_clp = FALSE /\ ret = "constructed"
  /\ spc = "none" /\ si = 0
  /\ ppc = "none"
  /\ wpc = [w \in Workers |-> "none"]
  /\ wloc = [w \in Workers |-> NoLocals]
  /\ child = [w \in Workers |-> NoChild]
  /\ portBound = FALSE
  /\ obs = NoObs
  /\ build = NoBuild
  /\ wfc = NoWait
  /\ \E l \in Leads, s \in Schemes, h \in Hosts, t \in Tails :
       pl = [pc |-> "matched", group |-> l \o s \o h \o t, scheme |-> s,
             link |-> "", stored |-> ""]

\* link = matches.group().strip() (tunnel.py 362)
LinkStrip ==
  /\ pl.pc = "matched"
  /\ pl' = [pl EXCEPT !.pc = "stripped", !.link = strip(pl.group)]
  /\ UNCHANGED <<fields, callerv, stopv, threadv, osv, obs, build, wfc>>

\* link = link if link.startswith("http") else "http://" + link, and
\* self.urls.append((link, note, name)) (tunnel.py 363-365)
LinkNormalize ==
  /\ pl.pc = "stripped"
  /\ pl' = [pl EXCEPT !.pc = "stored", !.stored = normalize(pl.link)]
  /\ UNCHANGED <<fields, callerv, stopv, threadv, osv, obs, build, wfc>>

NextLink == LinkStrip \/ LinkNormalize

SpecLink == InitLink /\ [][NextLink]_vars

\* C24: every stored URL starts with a scheme: a match captured without a
\* scheme is stored with "http://" put in front of it, and a match captured
\* with a scheme is stored as it is (blanks stripped), for every captured
\* text.
C24_StoredUrlHasScheme ==
  pl.pc = "stored" =>
    /\ startswith(pl.stored, "http://") \/ startswith(pl.stored, "https://")
    /\ pl.scheme = "" => pl.stored = "http://" \o pl.link
    /\ pl.scheme # "" => pl.stored = pl.link

====
